---- MODULE Spec2Model ----
(***************************************************************************)
(* Moodboard Builder: the scene (elements, selection, canvas theme) held   *)
(* by App, the gesture and inline-edit state held by MoodboardCanvas, and  *)
(* the two asynchronous file reads (image ingestion, project load).        *)
(*                                                                         *)
(* One action per event handler.  React state setters of one handler are   *)
(* applied together; every handler runs against the state of the last      *)
(* render (discrete events are flushed before the next event is            *)
(* dispatched).  FileReader.onload callbacks are separate actions.         *)
(*                                                                         *)
(* Identifiers: uuid() is modelled by a counter (ids 1, 2, ...), so an id  *)
(* issued by uuid() is never issued twice.  Ids that only occur in loaded  *)
(* documents are negative.  null is NoId.                                  *)
(***************************************************************************)
EXTENDS Integers, Sequences, FiniteSets, TLC

VARIABLES
    elements,       \* App: useState<MoodboardElement[]>
    selectedId,     \* App: useState<string | null>
    canvasTheme,    \* App: useState<CanvasTheme>
    drag,           \* MoodboardCanvas: useState<DragState>
    editingTextId,  \* MoodboardCanvas: useState<string | null>
    editingValue,   \* MoodboardCanvas: useState<string>
    uuidCount,      \* number of identifiers uuid() has issued
    imageReads,     \* FileReader.readAsDataURL calls whose onload is pending
    projectRead,    \* project document whose FileReader.onload is pending
    inputs          \* gesture starts, nudges, panel patches, reorders, keystrokes so far

vars == <<elements, selectedId, canvasTheme, drag, editingTextId, editingValue,
          uuidCount, imageReads, projectRead, inputs>>

scene == <<elements, selectedId, canvasTheme>>
canvasState == <<drag, editingTextId, editingValue>>
ioState == <<imageReads, projectRead>>

----------------------------------------------------------------------------
(* Bounds of the exploration *)

MaxElements == 3    \* elements in the scene
MaxIds == 3         \* identifiers uuid() issues
MaxReads == 1       \* image reads in flight
MaxInputs == 2      \* gesture starts + nudges + panel patches + reorders + keystrokes

----------------------------------------------------------------------------
(* Program constants *)

NoId == 0
GRID_SIZE == 24
MinSize == 60
DuplicateOffset == 24
NudgeSmall == 4
NudgeLarge == 24

CanvasThemes == {"grid", "dots", "paper", "plain"}
ResizeCorners == {"nw", "ne", "sw", "se"}
FONT_OPTIONS == {"Inter", "Playfair Display", "Poppins", "DM Sans"}

NoDrag == [id |-> NoId, mode |-> "none", corner |-> "none",
           startX |-> 0, startY |-> 0,
           origX |-> 0, origY |-> 0, origW |-> 0, origH |-> 0]

----------------------------------------------------------------------------
(* Inputs *)

SwatchColors == {"#f97316"}
ImageSources == {"data:image/png;base64,AAAA"}
PanelTexts == {"Mood"}
PanelFonts == {"Poppins"}
PanelFontSizes == {24}
PanelColors == {"#0ea5e9"}
PanelRotations == {15}
TypedTexts == {"Draft"}
Pointers == {<<0, 0>>, <<12, 12>>, <<-300, 40>>}
Keys == {"Delete", "Backspace", "d", "ArrowLeft", "ArrowRight", "ArrowUp", "ArrowDown", "x"}

----------------------------------------------------------------------------
(* Helpers *)

Max(a, b) == IF a >= b THEN a ELSE b
Min(a, b) == IF a <= b THEN a ELSE b

\* {...partial, ...el}: the spreads in the other order, the element's value wins
MergePartialFirst(el, partial) ==
    [k \in DOMAIN el \cup DOMAIN partial |->
        IF k \in DOMAIN el THEN el[k] ELSE partial[k]]

\* {...el, ...partial}
Merge(el, partial) ==
    [k \in DOMAIN el \cup DOMAIN partial |->
        IF k \in DOMAIN partial THEN partial[k] ELSE el[k]]

\* Math.max(...els.map(e => e.zIndex), floor...) over a non-empty collection
MaxOf(S) == CHOOSE m \in S : \A n \in S : n <= m
MinOf(S) == CHOOSE m \in S : \A n \in S : m <= n
ZIndexes(els) == {els[i].zIndex : i \in DOMAIN els}

\* elements.find(el => el.id === id) || null, as an index (0: null)
FindIndex(els, id) ==
    IF \E i \in DOMAIN els : els[i].id = id
    THEN MinOf({i \in DOMAIN els : els[i].id = id})
    ELSE 0

selectedIndex == FindIndex(elements, selectedId)

uuid == uuidCount + 1

----------------------------------------------------------------------------
(* App.tsx: scene operations *)

\* the position in the scene taken for the layer: elements.length + 1
NextZIndexByLength(els) == Len(els) + 1

NextZIndex(els) == IF Len(els) > 0 THEN MaxOf(ZIndexes(els)) + 1 ELSE 1

NewTextElement(id, text, z) ==
    [id |-> id, type |-> "text", text |-> text, x |-> 100, y |-> 100,
     width |-> 180, height |-> 60, rotation |-> 0, color |-> "#ffffff",
     fontSize |-> 18, fontFamily |-> "Inter", zIndex |-> z]

NewSwatchElement(id, color, z) ==
    [id |-> id, type |-> "swatch", color |-> color, x |-> 120, y |-> 120,
     width |-> 80, height |-> 80, rotation |-> 0, zIndex |-> z]

NewImageElement(id, src, x, y, z) ==
    [id |-> id, type |-> "image", src |-> src, x |-> x, y |-> y,
     width |-> 220, height |-> 160, rotation |-> 0, zIndex |-> z]

CanAdd == Len(elements) < MaxElements /\ uuidCount < MaxIds

addText(text) ==
    /\ CanAdd
    /\ elements' = Append(elements, NewTextElement(uuid, text, NextZIndex(elements)))
    /\ selectedId' = uuid
    /\ uuidCount' = uuid
    /\ UNCHANGED <<canvasTheme, canvasState, ioState, inputs>>

addSwatch(color) ==
    /\ CanAdd
    /\ elements' = Append(elements, NewSwatchElement(uuid, color, NextZIndex(elements)))
    /\ selectedId' = uuid
    /\ uuidCount' = uuid
    /\ UNCHANGED <<canvasTheme, canvasState, ioState, inputs>>

addImageAt(src, x, y) ==
    /\ elements' = Append(elements,
                          NewImageElement(uuid, src, x, y,
                              (IF Len(elements) > 0 THEN MaxOf(ZIndexes(elements)) ELSE 0) + 1))
    /\ selectedId' = uuid
    /\ uuidCount' = uuid

\* Sidebar.handleFileChange: the read starts, onload comes later
handleFileChange ==
    /\ imageReads < MaxReads
    /\ imageReads' = imageReads + 1
    /\ UNCHANGED <<scene, canvasState, uuidCount, projectRead, inputs>>

\* reader.onload of Sidebar.handleFileChange -> onAddImage -> addImage -> addImageAt
imageOnload(src) ==
    /\ imageReads > 0
    /\ CanAdd
    /\ imageReads' = imageReads - 1
    /\ addImageAt(src, 140, 140)
    /\ UNCHANGED <<canvasTheme, canvasState, projectRead, inputs>>

\* a patch that inserts the element when no element has the id
updateElementUpserts(prev, id, partial) ==
    IF \E i \in DOMAIN prev : prev[i].id = id
    THEN [i \in DOMAIN prev |->
             IF prev[i].id = id THEN Merge(prev[i], partial) ELSE prev[i]]
    ELSE Append(prev, Merge([id |-> id], partial))

\* the patch applied to every element, whatever its id
updateElementAll(prev, id, partial) ==
    [i \in DOMAIN prev |-> Merge(prev[i], partial)]

\* setElements(prev => prev.map(el => el.id === id ? {...el, ...partial} : el))
updateElement(prev, id, partial) ==
    [i \in DOMAIN prev |->
        IF prev[i].id = id THEN Merge(prev[i], partial) ELSE prev[i]]

\* Math.max(...prev.map(e => e.zIndex)) without the floor 0
bringForwardElementsNoFloor(prev, sel) ==
    LET maxZ == MaxOf(ZIndexes(prev))
    IN  [i \in DOMAIN prev |->
            IF prev[i].id = sel THEN Merge(prev[i], [zIndex |-> maxZ + 1]) ELSE prev[i]]

\* the selected element raised to the greatest zIndex, without the + 1
bringForwardElementsToMax(prev, sel) ==
    LET maxZ == MaxOf(ZIndexes(prev) \cup {0})
    IN  [i \in DOMAIN prev |->
            IF prev[i].id = sel THEN Merge(prev[i], [zIndex |-> maxZ]) ELSE prev[i]]

bringForwardElements(prev, sel) ==
    LET maxZ == MaxOf(ZIndexes(prev) \cup {0})
    IN  [i \in DOMAIN prev |->
            IF prev[i].id = sel THEN Merge(prev[i], [zIndex |-> maxZ + 1]) ELSE prev[i]]

sendBackwardElements(prev, sel) ==
    LET minZ == MinOf(ZIndexes(prev) \cup {0})
    IN  [i \in DOMAIN prev |->
            IF prev[i].id = sel THEN Merge(prev[i], [zIndex |-> minZ - 1]) ELSE prev[i]]

bringForward ==
    /\ inputs < MaxInputs
    /\ IF selectedId = NoId
       THEN UNCHANGED vars
       ELSE /\ elements' = bringForwardElements(elements, selectedId)
            /\ inputs' = inputs + 1
            /\ UNCHANGED <<selectedId, canvasTheme, canvasState, ioState, uuidCount>>

sendBackward ==
    /\ inputs < MaxInputs
    /\ IF selectedId = NoId
       THEN UNCHANGED vars
       ELSE /\ elements' = sendBackwardElements(elements, selectedId)
            /\ inputs' = inputs + 1
            /\ UNCHANGED <<selectedId, canvasTheme, canvasState, ioState, uuidCount>>

RemoveId(prev, id) == SelectSeq(prev, LAMBDA el : el.id # id)

\* deleteSelected without setSelectedId(null)
deleteSelectedKeepsSelection ==
    IF selectedId = NoId
    THEN UNCHANGED vars
    ELSE /\ elements' = RemoveId(elements, selectedId)
         /\ UNCHANGED <<selectedId, canvasTheme, canvasState, ioState, uuidCount, inputs>>

deleteSelected ==
    IF selectedId = NoId
    THEN UNCHANGED vars
    ELSE /\ elements' = RemoveId(elements, selectedId)
         /\ selectedId' = NoId
         /\ UNCHANGED <<canvasTheme, canvasState, ioState, uuidCount, inputs>>

\* the clone without zIndex: sel.zIndex + 1
CloneOfKeepsZIndex(sel, id) ==
    Merge(sel, [id |-> id, x |-> sel.x + DuplicateOffset, y |-> sel.y + DuplicateOffset])

CloneOf(sel, id) ==
    Merge(sel, [id |-> id, x |-> sel.x + DuplicateOffset,
                y |-> sel.y + DuplicateOffset, zIndex |-> sel.zIndex + 1])

duplicateSelected ==
    IF selectedIndex = 0
    THEN UNCHANGED vars
    ELSE /\ CanAdd
         /\ elements' = Append(elements, CloneOf(elements[selectedIndex], uuid))
         /\ selectedId' = uuid
         /\ uuidCount' = uuid
         /\ UNCHANGED <<canvasTheme, canvasState, ioState, inputs>>

\* onUpdateSelected = patch => selectedElement && updateElement(selectedElement.id, patch)
onUpdateSelected(patch) ==
    /\ inputs < MaxInputs
    /\ IF selectedIndex = 0
       THEN UNCHANGED vars
       ELSE /\ elements' = updateElement(elements, elements[selectedIndex].id, patch)
            /\ inputs' = inputs + 1
            /\ UNCHANGED <<selectedId, canvasTheme, canvasState, ioState, uuidCount>>

onChangeCanvasTheme(theme) ==
    /\ canvasTheme' = theme
    /\ UNCHANGED <<elements, selectedId, canvasState, ioState, uuidCount, inputs>>

----------------------------------------------------------------------------
(* App.tsx: persistence.  A document is a JSON value tree; a file that is *)
(* not JSON at all is SyntaxErrorDoc.                                     *)

NumberKeys == {"x", "y", "width", "height", "rotation", "zIndex", "fontSize"}

JNum(n) == [t |-> "num", v |-> n]
JStr(s) == [t |-> "str", v |-> s]
JArr(items) == [t |-> "arr", items |-> items]
JObj(m) == [t |-> "obj", m |-> m]
JNull == [t |-> "null"]
Undefined == [t |-> "undefined"]
SyntaxErrorDoc == [t |-> "syntax"]
NoDoc == [t |-> "none"]

\* JSON.stringify of one element: every own key, numbers as numbers, the rest as strings
JsonOfElement(el) ==
    JObj([k \in DOMAIN el |-> IF k \in NumberKeys THEN JNum(el[k]) ELSE JStr(el[k])])

\* JSON.stringify({elements, canvasTheme}, null, 2)
JSONstringify(els, theme) ==
    JObj([elements |-> JArr([i \in DOMAIN els |-> JsonOfElement(els[i])]),
          canvasTheme |-> JStr(theme)])

\* the JavaScript value of a parsed JSON object (one element)
ElementOfJson(j) == [k \in DOMAIN j.m |-> j.m[k].v]

\* data.key on the parsed value: undefined unless data is an object that has the key
Get(data, key) ==
    IF data.t = "obj" /\ key \in DOMAIN data.m THEN data.m[key] ELSE Undefined

\* JSON.parse throws on text that is not JSON; data.elements throws on null
ImportThrows(doc) == doc.t = "syntax" \/ doc.t = "null"

Truthy(j) == ~(j.t \in {"undefined", "null"}) /\ ~(j.t = "str" /\ j.v = "")

\* the onload without setCanvasTheme(data.canvasTheme)
ImportOutcomeKeepsTheme(doc, prevElements, prevTheme, prevSelected) ==
    IF ImportThrows(doc)
    THEN [elements |-> prevElements, canvasTheme |-> prevTheme, selectedId |-> prevSelected]
    ELSE LET dElements == Get(doc, "elements")
         IN  [elements |->
                 IF dElements.t \in {"undefined", "null"}
                 THEN <<>>
                 ELSE [i \in DOMAIN dElements.items |-> ElementOfJson(dElements.items[i])],
              canvasTheme |-> prevTheme,
              selectedId |-> NoId]

\* reader.onload of handleImportJson: the state after the try block
ImportOutcome(doc, prevElements, prevTheme, prevSelected) ==
    IF ImportThrows(doc)
    THEN [elements |-> prevElements, canvasTheme |-> prevTheme, selectedId |-> prevSelected]
    ELSE LET dElements == Get(doc, "elements")
             dTheme == Get(doc, "canvasTheme")
         IN  [elements |->
                 IF dElements.t \in {"undefined", "null"}
                 THEN <<>>
                 ELSE [i \in DOMAIN dElements.items |-> ElementOfJson(dElements.items[i])],
              canvasTheme |-> IF Truthy(dTheme) THEN dTheme.v ELSE prevTheme,
              selectedId |-> NoId]

\* handleExportJson: the file it downloads; it changes no state of the editor
SavedDocument == JSONstringify(elements, canvasTheme)

\* handleImportJson: the read starts, onload comes later
handleImportJson(doc) ==
    /\ projectRead = NoDoc
    /\ projectRead' = doc
    /\ UNCHANGED <<scene, canvasState, uuidCount, imageReads, inputs>>

importOnload ==
    /\ projectRead # NoDoc
    /\ LET out == ImportOutcome(projectRead, elements, canvasTheme, selectedId)
       IN  /\ elements' = out.elements
           /\ canvasTheme' = out.canvasTheme
           /\ selectedId' = out.selectedId
    /\ projectRead' = NoDoc
    /\ UNCHANGED <<canvasState, uuidCount, imageReads, inputs>>

\* Documents a user may pick in the file dialog
TinySwatchDoc ==
    JObj([elements |-> JArr(<<JObj([id |-> JStr(-1), type |-> JStr("swatch"),
                                    color |-> JStr("#22c55e"),
                                    x |-> JNum(0), y |-> JNum(0),
                                    width |-> JNum(10), height |-> JNum(10),
                                    rotation |-> JNum(0), zIndex |-> JNum(1)])>>),
          canvasTheme |-> JStr("grid")])

NoFontTextDoc ==
    JObj([elements |-> JArr(<<JObj([id |-> JStr(-2), type |-> JStr("text"),
                                    text |-> JStr("Old"), color |-> JStr("#ffffff"),
                                    fontSize |-> JNum(18),
                                    x |-> JNum(48), y |-> JNum(48),
                                    width |-> JNum(120), height |-> JNum(72),
                                    rotation |-> JNum(0), zIndex |-> JNum(2)])>>)])

JsonSwatch(id, x, y, z) ==
    JObj([id |-> JStr(id), type |-> JStr("swatch"), color |-> JStr("#eab308"),
          x |-> JNum(x), y |-> JNum(y), width |-> JNum(96), height |-> JNum(96),
          rotation |-> JNum(0), zIndex |-> JNum(z)])

\* four elements whose zIndex values are 5, 1, 5, 3 in document order
LayeredDoc ==
    JObj([elements |-> JArr(<<JsonSwatch(-11, 0, 0, 5), JsonSwatch(-12, 48, 0, 1),
                              JsonSwatch(-13, 0, 48, 5), JsonSwatch(-14, 48, 48, 3)>>),
          canvasTheme |-> JStr("plain")])

\* a hand-edited document: two elements carry the same id
DupIdDoc ==
    JObj([elements |-> JArr(<<JsonSwatch(-5, 0, 0, 1), JsonSwatch(-5, 120, 0, 2)>>),
          canvasTheme |-> JStr("grid")])

MalformedDocs ==
    {SyntaxErrorDoc, JNull, JNum(42), JStr("moodboard"), JArr(<<>>)}

\* ... and the file "Save JSON" has just written
PickableDocs ==
    MalformedDocs \cup {TinySwatchDoc, NoFontTextDoc, DupIdDoc, SavedDocument}

----------------------------------------------------------------------------
(* MoodboardCanvas.tsx: geometry *)

\* Math.round(v / d) for integers v and d > 0: floor(v / d + 1/2)
MathRoundDiv(v, d) == (2 * v + d) \div (2 * d)

\* Math.round(value) / GRID_SIZE * GRID_SIZE: the division is not rounded
snapUnrounded(value) == value

\* Math.floor in place of Math.round
snapFloor(value) == (value \div GRID_SIZE) * GRID_SIZE

\* Math.ceil in place of Math.round
snapCeil(value) == -((-value) \div GRID_SIZE) * GRID_SIZE

\* rounding of the magnitude: Math.sign(value) * Math.round(Math.abs(value) / GRID_SIZE)
snapHalfAwayFromZero(value) ==
    IF value >= 0
    THEN MathRoundDiv(value, GRID_SIZE) * GRID_SIZE
    ELSE -(MathRoundDiv(-value, GRID_SIZE) * GRID_SIZE)

snap(value) == MathRoundDiv(value, GRID_SIZE) * GRID_SIZE

\* the move computed from the element's current position instead of the
\* position stored at gesture start
MoveGeometryFromCurrent(d, clientX, clientY) ==
    LET dx == clientX - d.startX
        dy == clientY - d.startY
        i == FindIndex(elements, d.id)
        curX == IF i = 0 THEN d.origX ELSE elements[i].x
        curY == IF i = 0 THEN d.origY ELSE elements[i].y
    IN  [x |-> snap(curX + dx), y |-> snap(curY + dy)]

\* handleMouseMove, mode "move": the patch
MoveGeometry(d, clientX, clientY) ==
    LET dx == clientX - d.startX
        dy == clientY - d.startY
    IN  [x |-> snap(d.origX + dx), y |-> snap(d.origY + dy)]

\* handleMouseMove, mode "resize": the switch on the corner
ResizeCandidate(d, dx, dy) ==
    CASE d.corner = "se" -> [x |-> d.origX, y |-> d.origY,
                             w |-> d.origW + dx, h |-> d.origH + dy]
      [] d.corner = "sw" -> [x |-> d.origX + dx, y |-> d.origY,
                             w |-> d.origW - dx, h |-> d.origH + dy]
      [] d.corner = "ne" -> [x |-> d.origX, y |-> d.origY + dy,
                             w |-> d.origW + dx, h |-> d.origH - dy]
      [] d.corner = "nw" -> [x |-> d.origX + dx, y |-> d.origY + dy,
                             w |-> d.origW - dx, h |-> d.origH - dy]
      [] OTHER -> [x |-> d.origX, y |-> d.origY, w |-> d.origW, h |-> d.origH]

\* the resize patch without Math.max(60, ...)
ResizeGeometryUnclamped(d, clientX, clientY) ==
    LET c == ResizeCandidate(d, clientX - d.startX, clientY - d.startY)
    IN  [x |-> snap(c.x), y |-> snap(c.y), width |-> snap(c.w), height |-> snap(c.h)]

\* handleMouseMove, mode "resize": clamp, then snap; the patch
ResizeGeometry(d, clientX, clientY) ==
    LET c == ResizeCandidate(d, clientX - d.startX, clientY - d.startY)
        w == Max(MinSize, c.w)
        h == Max(MinSize, c.h)
    IN  [x |-> snap(c.x), y |-> snap(c.y), width |-> snap(w), height |-> snap(h)]

\* the comparator written the other way round
compareZIndexReversed(a, b) == b.zIndex - a.zIndex

\* (a, b) => a.zIndex - b.zIndex
compareZIndex(a, b) == a.zIndex - b.zIndex

\* Array.prototype.sort is stable: an element goes behind every element that
\* does not compare greater.  Positions are indices into els.
RECURSIVE InsertSorted(_, _, _)
InsertSorted(els, sorted, i) ==
    IF sorted = <<>>
    THEN <<i>>
    ELSE IF compareZIndex(els[Head(sorted)], els[i]) <= 0
         THEN <<Head(sorted)>> \o InsertSorted(els, Tail(sorted), i)
         ELSE <<i>> \o sorted

RECURSIVE SortedPrefix(_, _)
SortedPrefix(els, n) ==
    IF n = 0 THEN <<>> ELSE InsertSorted(els, SortedPrefix(els, n - 1), n)

\* elements.slice().sort((a, b) => a.zIndex - b.zIndex): the indices in paint order
PaintOrder(els) == SortedPrefix(els, Len(els))

\* el.fontFamily || "Inter, system-ui, -apple-system, sans-serif": the style of
\* the label and of the inline textarea
RenderedFontFamily(el) ==
    IF "fontFamily" \in DOMAIN el /\ el.fontFamily # ""
    THEN el.fontFamily
    ELSE "Inter, system-ui, -apple-system, sans-serif"

\* the select bound to selected.fontFamily with no fallback
PanelFontFamilyNoFallback(el) ==
    IF "fontFamily" \in DOMAIN el THEN el.fontFamily ELSE "undefined"

\* Sidebar: value={selected.fontFamily || "Inter"}
PanelFontFamily(el) ==
    IF "fontFamily" \in DOMAIN el /\ el.fontFamily # ""
    THEN el.fontFamily
    ELSE "Inter"

----------------------------------------------------------------------------
(* MoodboardCanvas.tsx: inline text editing and gestures *)

\* the inline <textarea> is rendered: a text element whose id is editingTextId
TextareaMounted ==
    \E i \in DOMAIN elements :
        elements[i].id = editingTextId /\ elements[i].type = "text"

startEditingText(i) ==
    LET el == elements[i]
    IN  IF el.type # "text"
        THEN UNCHANGED vars
        ELSE /\ editingTextId' = el.id
             /\ editingValue' = (IF "text" \in DOMAIN el THEN el.text ELSE "")
             /\ UNCHANGED <<scene, drag, ioState, uuidCount, inputs>>

\* textarea onChange
setEditingValue(value) ==
    /\ editingValue' = value
    /\ UNCHANGED <<scene, drag, editingTextId, ioState, uuidCount, inputs>>

\* commit that writes the patch and stays in the edit sub-state
commitEditingTextStaysEditing ==
    IF editingTextId = NoId
    THEN UNCHANGED vars
    ELSE /\ elements' = updateElement(elements, editingTextId, [text |-> editingValue])
         /\ UNCHANGED <<selectedId, canvasTheme, drag, editingTextId, editingValue,
                        ioState, uuidCount, inputs>>

commitEditingText ==
    IF editingTextId = NoId
    THEN UNCHANGED vars
    ELSE /\ elements' = updateElement(elements, editingTextId, [text |-> editingValue])
         /\ editingTextId' = NoId
         /\ UNCHANGED <<selectedId, canvasTheme, drag, editingValue, ioState,
                        uuidCount, inputs>>

\* cancel that writes the buffer back before it leaves the edit sub-state
cancelEditingTextCommits ==
    /\ elements' = updateElement(elements, editingTextId, [text |-> editingValue])
    /\ editingTextId' = NoId
    /\ UNCHANGED <<selectedId, canvasTheme, drag, editingValue, ioState, uuidCount, inputs>>

cancelEditingText ==
    /\ editingTextId' = NoId
    /\ UNCHANGED <<scene, drag, editingValue, ioState, uuidCount, inputs>>

\* the handler without its first line (the return while this element is edited)
handleMouseDownElementNoEditGuard(i, mode, corner, clientX, clientY) ==
    LET el == elements[i]
    IN  /\ inputs < MaxInputs
        /\ selectedId' = el.id
        /\ drag' = [id |-> el.id, mode |-> mode, corner |-> corner,
                    startX |-> clientX, startY |-> clientY,
                    origX |-> el.x, origY |-> el.y,
                    origW |-> el.width, origH |-> el.height]
        /\ inputs' = inputs + 1
        /\ UNCHANGED <<elements, canvasTheme, editingTextId, editingValue,
                       ioState, uuidCount>>

\* the handler without onSelect(el.id)
handleMouseDownElementNoSelect(i, mode, corner, clientX, clientY) ==
    LET el == elements[i]
    IN  IF editingTextId # NoId /\ editingTextId = el.id
        THEN UNCHANGED vars
        ELSE /\ inputs < MaxInputs
             /\ drag' = [id |-> el.id, mode |-> mode, corner |-> corner,
                         startX |-> clientX, startY |-> clientY,
                         origX |-> el.x, origY |-> el.y,
                         origW |-> el.width, origH |-> el.height]
             /\ inputs' = inputs + 1
             /\ UNCHANGED <<scene, editingTextId, editingValue, ioState, uuidCount>>

handleMouseDownElement(i, mode, corner, clientX, clientY) ==
    LET el == elements[i]
    IN  IF editingTextId # NoId /\ editingTextId = el.id
        THEN UNCHANGED vars
        ELSE /\ inputs < MaxInputs
             /\ selectedId' = el.id
             /\ drag' = [id |-> el.id, mode |-> mode, corner |-> corner,
                         startX |-> clientX, startY |-> clientY,
                         origX |-> el.x, origY |-> el.y,
                         origW |-> el.width, origH |-> el.height]
             /\ inputs' = inputs + 1
             /\ UNCHANGED <<elements, canvasTheme, editingTextId, editingValue,
                            ioState, uuidCount>>

handleMouseMove(clientX, clientY) ==
    IF drag = NoDrag
    THEN UNCHANGED vars
    ELSE /\ elements' = updateElement(elements, drag.id,
                            IF drag.mode = "move"
                            THEN MoveGeometry(drag, clientX, clientY)
                            ELSE ResizeGeometry(drag, clientX, clientY))
         /\ UNCHANGED <<selectedId, canvasTheme, canvasState, ioState, uuidCount, inputs>>

\* onMouseUp and onMouseLeave
handleMouseUp ==
    /\ drag' = NoDrag
    /\ UNCHANGED <<scene, editingTextId, editingValue, ioState, uuidCount, inputs>>

\* background mouse down that commits the open edit instead of cancelling it
handleBoardMouseDownCommits ==
    /\ selectedId' = NoId
    /\ elements' = updateElement(elements, editingTextId, [text |-> editingValue])
    /\ editingTextId' = NoId
    /\ UNCHANGED <<canvasTheme, drag, editingValue, ioState, uuidCount, inputs>>

\* mouse down on the board itself (e.target === e.currentTarget)
handleBoardMouseDown ==
    /\ selectedId' = NoId
    /\ editingTextId' = NoId
    /\ UNCHANGED <<elements, canvasTheme, drag, editingValue, ioState, uuidCount, inputs>>

----------------------------------------------------------------------------
(* App.tsx: keyboard shortcuts (window keydown) *)

NudgeDelta(key, shiftKey) ==
    LET nudge == IF shiftKey THEN NudgeLarge ELSE NudgeSmall
    IN  [dx |-> IF key = "ArrowLeft" THEN -nudge
                ELSE IF key = "ArrowRight" THEN nudge ELSE 0,
         dy |-> IF key = "ArrowUp" THEN -nudge
                ELSE IF key = "ArrowDown" THEN nudge ELSE 0]

\* the nudge with the new position snapped to the grid
NudgeElementsSnapped(prev, id, dx, dy) ==
    [i \in DOMAIN prev |->
        IF prev[i].id = id
        THEN Merge(prev[i], [x |-> snap(prev[i].x + dx), y |-> snap(prev[i].y + dy)])
        ELSE prev[i]]

NudgeElements(prev, id, dx, dy) ==
    [i \in DOMAIN prev |->
        IF prev[i].id = id
        THEN Merge(prev[i], [x |-> prev[i].x + dx, y |-> prev[i].y + dy])
        ELSE prev[i]]

\* the handler without the check of e.target
keydownNoTargetCheck(key, shiftKey, metaOrCtrl, targetIsField) ==
    IF key \in {"Delete", "Backspace"} /\ selectedIndex # 0
    THEN /\ elements' = RemoveId(elements, elements[selectedIndex].id)
         /\ selectedId' = NoId
         /\ UNCHANGED <<canvasTheme, canvasState, ioState, uuidCount, inputs>>
    ELSE IF metaOrCtrl /\ key = "d" /\ selectedIndex # 0
    THEN /\ CanAdd
         /\ elements' = Append(elements, CloneOf(elements[selectedIndex], uuid))
         /\ selectedId' = uuid
         /\ uuidCount' = uuid
         /\ UNCHANGED <<canvasTheme, canvasState, ioState, inputs>>
    ELSE IF selectedIndex = 0
    THEN UNCHANGED vars
    ELSE LET n == NudgeDelta(key, shiftKey)
         IN  IF n.dx # 0 \/ n.dy # 0
             THEN /\ inputs < MaxInputs
                  /\ elements' = NudgeElements(elements, elements[selectedIndex].id,
                                               n.dx, n.dy)
                  /\ inputs' = inputs + 1
                  /\ UNCHANGED <<selectedId, canvasTheme, canvasState, ioState, uuidCount>>
             ELSE UNCHANGED vars

\* targetIsField: e.target is an INPUT, a TEXTAREA or content-editable
keydown(key, shiftKey, metaOrCtrl, targetIsField) ==
    IF targetIsField
    THEN UNCHANGED vars
    ELSE IF key \in {"Delete", "Backspace"} /\ selectedIndex # 0
    THEN /\ elements' = RemoveId(elements, elements[selectedIndex].id)
         /\ selectedId' = NoId
         /\ UNCHANGED <<canvasTheme, canvasState, ioState, uuidCount, inputs>>
    ELSE IF metaOrCtrl /\ key = "d" /\ selectedIndex # 0
    THEN /\ CanAdd
         /\ elements' = Append(elements, CloneOf(elements[selectedIndex], uuid))
         /\ selectedId' = uuid
         /\ uuidCount' = uuid
         /\ UNCHANGED <<canvasTheme, canvasState, ioState, inputs>>
    ELSE IF selectedIndex = 0
    THEN UNCHANGED vars
    ELSE LET n == NudgeDelta(key, shiftKey)
         IN  IF n.dx # 0 \/ n.dy # 0
             THEN /\ inputs < MaxInputs
                  /\ elements' = NudgeElements(elements, elements[selectedIndex].id,
                                               n.dx, n.dy)
                  /\ inputs' = inputs + 1
                  /\ UNCHANGED <<selectedId, canvasTheme, canvasState, ioState, uuidCount>>
             ELSE UNCHANGED vars

----------------------------------------------------------------------------
(* App.tsx: PNG export.  toPng(boardRef.current, { cacheBust: true }) draws  *)
(* the board node with everything MoodboardCanvas renders inside it; no      *)
(* filter is passed and no state is changed before the capture.              *)

\* {selected && <div ...>Duplicate Front Back Delete</div>}, a child of the board
ToolbarRendered == selectedIndex # 0

\* the elements rendered with the ring-2 ring-emerald-400 classes
SelectionRings == {i \in DOMAIN elements : elements[i].id = selectedId}

\* what handleExportPng captures
ExportedSurface ==
    [elements |-> [k \in DOMAIN PaintOrder(elements) |-> elements[PaintOrder(elements)[k]]],
     canvasTheme |-> canvasTheme,
     toolbar |-> ToolbarRendered,
     rings |-> SelectionRings]

----------------------------------------------------------------------------
(* The editor *)

Init ==
    /\ elements = <<>>
    /\ selectedId = NoId
    /\ canvasTheme = "dots"
    /\ drag = NoDrag
    /\ editingTextId = NoId
    /\ editingValue = ""
    /\ uuidCount = 0
    /\ imageReads = 0
    /\ projectRead = NoDoc
    /\ inputs = 0

\* A click on a button, a file input or a panel control takes the focus from
\* the inline textarea, whose onBlur (commitEditingText) runs first and
\* unmounts it: such handlers run with no textarea mounted.
FocusOutsideEditor == ~TextareaMounted

\* The panel renders the controls of the selected element's type only
PanelPatch(patch) ==
    /\ selectedIndex # 0
    /\ \/ "rotation" \in DOMAIN patch
       \/ elements[selectedIndex].type = "text"
       \/ elements[selectedIndex].type = "swatch" /\ "color" \in DOMAIN patch
    /\ onUpdateSelected(patch)

AddEvents ==
    \/ addText("New label")
    \/ \E c \in SwatchColors : addSwatch(c)
    \/ handleFileChange

PanelEvents ==
    \/ \E t \in PanelTexts : PanelPatch([text |-> t])
    \/ \E f \in PanelFonts : PanelPatch([fontFamily |-> f])
    \/ \E n \in PanelFontSizes : PanelPatch([fontSize |-> n])
    \/ \E c \in PanelColors : PanelPatch([color |-> c])
    \/ \E r \in PanelRotations : PanelPatch([rotation |-> r])

\* The floating toolbar and the panel's layer buttons exist while an element is selected
DeleteDuplicateEvents ==
    /\ selectedIndex # 0
    /\ \/ deleteSelected
       \/ duplicateSelected

ReorderEvents ==
    /\ selectedIndex # 0
    /\ \/ bringForward
       \/ sendBackward

\* A double click follows a mouse down and a mouse up on the same element
DoubleClick(i) ==
    /\ selectedId = elements[i].id \/ editingTextId = elements[i].id
    /\ drag = NoDrag
    /\ startEditingText(i)

\* Mouse down on an element's body or on one of its corner handles
PointerDownEvents(pointers, corners) ==
    \E i \in DOMAIN elements, p \in pointers :
        \/ handleMouseDownElement(i, "move", "none", p[1], p[2])
        \/ \E corner \in corners :
              handleMouseDownElement(i, "resize", corner, p[1], p[2])

PointerMoveEvents(pointers) ==
    \E p \in pointers : handleMouseMove(p[1], p[2])

\* Events of the inline textarea: typing, blur or Enter, Escape
TextareaEvents ==
    /\ TextareaMounted
    /\ \/ \E v \in TypedTexts : setEditingValue(v)
       \/ commitEditingText
       \/ cancelEditingText

\* While the inline textarea is mounted it has the focus and is the key target
KeyboardEvents(keys) ==
    \E key \in keys, shiftKey \in BOOLEAN, metaOrCtrl \in BOOLEAN, targetIsField \in BOOLEAN :
        /\ TextareaMounted => targetIsField
        /\ keydown(key, shiftKey, metaOrCtrl, targetIsField)

AsyncEvents ==
    \/ \E src \in ImageSources : imageOnload(src)
    \/ importOnload

(* Selection and inline editing: every handler that sets selectedId,       *)
(* editingTextId or drag, or adds or removes elements.                     *)
Next ==
    \/ FocusOutsideEditor /\ AddEvents
    \/ FocusOutsideEditor /\ DeleteDuplicateEvents
    \/ FocusOutsideEditor /\ \E doc \in {NoFontTextDoc} : handleImportJson(doc)
    \/ PointerDownEvents({<<0, 0>>}, {"se"})
    \/ handleMouseUp
    \/ handleBoardMouseDown
    \/ \E i \in DOMAIN elements : DoubleClick(i)
    \/ TextareaEvents
    \/ KeyboardEvents({"Delete", "Backspace", "d"})
    \/ AsyncEvents

Spec == Init /\ [][Next]_vars

(* Persistence: the scene operations of App and Sidebar, save and load.    *)
NextCodec ==
    \/ AddEvents
    \/ selectedIndex # 0 /\ deleteSelected
    \/ \E r \in PanelRotations : PanelPatch([rotation |-> r])
    \/ \E theme \in {"paper"} : onChangeCanvasTheme(theme)
    \/ \E doc \in PickableDocs : handleImportJson(doc)
    \/ AsyncEvents

SpecCodec == Init /\ [][NextCodec]_vars

\* The handlers are props of the toolbar and of the panel; called while no
\* element is selected they return at their first line
UnselectedCalls ==
    /\ selectedId = NoId
    /\ \/ bringForward
       \/ sendBackward
       \/ deleteSelected
       \/ duplicateSelected

(* Layering: add, duplicate, reorder and load, over scenes that hold equal *)
(* zIndex values and, once a hand-edited document is loaded, equal ids.    *)
NextLayers ==
    \/ AddEvents
    \/ AsyncEvents
    \/ \E doc \in {LayeredDoc, DupIdDoc} : handleImportJson(doc)
    \/ PointerDownEvents({<<0, 0>>}, {"se"})
    \/ handleMouseUp
    \/ selectedIndex # 0 /\ duplicateSelected
    \/ ReorderEvents
    \/ KeyboardEvents({"d"})

SpecLayers == Init /\ [][NextLayers]_vars

(* Lifecycle: elements come and go while gestures run and while nothing is *)
(* selected.                                                               *)
NextLifecycle ==
    \/ AddEvents
    \/ AsyncEvents
    \/ \E doc \in {DupIdDoc} : handleImportJson(doc)
    \/ PointerDownEvents({<<0, 0>>}, {"se"})
    \/ PointerMoveEvents({<<0, 0>>})
    \/ handleMouseUp
    \/ handleBoardMouseDown
    \/ selectedIndex # 0 /\ deleteSelected
    \/ KeyboardEvents({"Delete", "Backspace"})
    \/ UnselectedCalls

SpecLifecycle == Init /\ [][NextLifecycle]_vars

\* onUpdateSelected takes any Partial<MoodboardElement>: a caller that passes
\* a size
PatchedSizes == {10, 60, 120}

SizePatchCalls ==
    /\ selectedIndex # 0
    /\ \E w \in PatchedSizes, h \in PatchedSizes :
          onUpdateSelected([width |-> w, height |-> h])

(* The panel: patches of the selected element.                             *)
NextPanel ==
    \/ addText("New label")
    \/ \E c \in SwatchColors : addSwatch(c)
    \/ PanelEvents
    \/ SizePatchCalls

SpecPanel == Init /\ [][NextPanel]_vars

(* Inline editing next to gestures: a label and a swatch, as addText and    *)
(* addSwatch leave them.                                                   *)
InitEdit ==
    /\ elements = <<NewTextElement(1, "New label", 1),
                    NewSwatchElement(2, "#f97316", 2)>>
    /\ selectedId = 2
    /\ canvasTheme = "dots"
    /\ drag = NoDrag
    /\ editingTextId = NoId
    /\ editingValue = ""
    /\ uuidCount = 2
    /\ imageReads = 0
    /\ projectRead = NoDoc
    /\ inputs = 0

NextEdit ==
    \/ PointerDownEvents({<<0, 0>>}, ResizeCorners)
    \/ PointerMoveEvents({<<0, 0>>, <<12, 12>>})
    \/ handleMouseUp
    \/ handleBoardMouseDown
    \/ \E i \in DOMAIN elements : DoubleClick(i)
    \/ TextareaEvents

SpecEdit == InitEdit /\ [][NextEdit]_vars

(* Keys pressed while a label is edited inline, and around the edit.         *)
NextEditKeys ==
    \/ handleBoardMouseDown
    \/ \E i \in DOMAIN elements : handleMouseDownElement(i, "move", "none", 0, 0)
    \/ handleMouseUp
    \/ \E i \in DOMAIN elements : DoubleClick(i)
    \/ TextareaEvents
    \/ KeyboardEvents(Keys)

SpecEditKeys == InitEdit /\ [][NextEditKeys]_vars

(* Keyboard shortcuts on a scene of labels and swatches.                    *)
NextKeys ==
    \/ addText("New label")
    \/ \E c \in SwatchColors : addSwatch(c)
    \/ \E i \in DOMAIN elements : handleMouseDownElement(i, "move", "none", 0, 0)
    \/ handleMouseUp
    \/ handleBoardMouseDown
    \/ KeyboardEvents(Keys \ {"d"})

SpecKeys == Init /\ [][NextKeys]_vars

(* One gesture on one element of arbitrary geometry.                       *)
GestureXs == -36 .. 36
GestureYs == {-12, 48, 100}
GestureWidths == {60, 80, 192}
GestureHeights == {60, 160}

InitGesture ==
    /\ \E x \in GestureXs, y \in GestureYs, w \in GestureWidths, h \in GestureHeights :
          elements = <<Merge(NewSwatchElement(1, "#f97316", 1),
                             [x |-> x, y |-> y, width |-> w, height |-> h])>>
    /\ selectedId = NoId
    /\ canvasTheme = "dots"
    /\ drag = NoDrag
    /\ editingTextId = NoId
    /\ editingValue = ""
    /\ uuidCount = 1
    /\ imageReads = 0
    /\ projectRead = NoDoc
    /\ inputs = MaxInputs - 1

NextGesture ==
    \/ PointerDownEvents(Pointers, ResizeCorners)
    \/ PointerMoveEvents(Pointers)
    \/ handleMouseUp

SpecGesture == InitGesture /\ [][NextGesture]_vars

----------------------------------------------------------------------------
(* Properties *)

TheElement(els, id) == els[FindIndex(els, id)]
Present(els, id) == FindIndex(els, id) # 0

\* C1: every element of the scene has width >= 60 and height >= 60 in every
\* reachable state, whatever was added, patched, dragged, deleted or loaded.
C1_MinimumSizeAlways ==
    \A i \in DOMAIN elements :
        elements[i].width >= MinSize /\ elements[i].height >= MinSize

\* C2: the selected identifier is unset or is the identifier of an element
\* that is in the scene.
C2_SelectionNotDangling ==
    selectedId = NoId \/ Present(elements, selectedId)

\* an element was deleted while selected: the selection is cleared and the
\* other element stays
C2_Witness ==
    /\ selectedId = NoId
    /\ uuidCount = 2
    /\ Len(elements) = 1
    /\ elements[1].id > 0

\* C3: an element in inline edit is the selected element and a text element
\* of the scene.
C3_EditingIsSelectedText ==
    editingTextId # NoId =>
        /\ editingTextId = selectedId
        /\ Present(elements, editingTextId)
        /\ TheElement(elements, editingTextId).type = "text"

\* C4: a mouse down on another element (body or corner handle) during an
\* inline edit commits the edit: the buffer becomes the edited element's text
\* and the edit sub-state is left, in the step that selects the other element.
C4_PointerDownResolvesEdit ==
    [][\A i \in DOMAIN elements, corner \in ResizeCorners \cup {"none"}, p \in Pointers :
          ( /\ editingTextId # NoId
            /\ Present(elements, editingTextId)
            /\ elements[i].id # editingTextId
            /\ handleMouseDownElement(i, IF corner = "none" THEN "move" ELSE "resize",
                                      corner, p[1], p[2]) )
          => /\ editingTextId' = NoId
             /\ TheElement(elements', editingTextId).text = editingValue]_vars

\* C5: the load of a malformed document (not JSON, or JSON whose top-level
\* value is null, a number, a string or an array) leaves the elements, the
\* canvas theme and the selection as they were.
C5_MalformedLoadChangesNothing ==
    [][(projectRead \in MalformedDocs /\ importOnload)
          => UNCHANGED <<elements, canvasTheme, selectedId>>]_vars

\* C6: loading the document that saving the scene S with theme C produces
\* yields the elements of S (same order, identifiers, zIndex, every field)
\* and the theme C, whatever scene and theme it is loaded over.
C6_RoundTrip ==
    \A prevTheme \in CanvasThemes, prevSelected \in {NoId, selectedId} :
        LET out == ImportOutcome(SavedDocument, <<NewTextElement(-3, "Other", 7)>>,
                                 prevTheme, prevSelected)
        IN  /\ out.elements = elements
            /\ out.canvasTheme = canvasTheme

\* the saved file of a scene of two kinds of element with a non-default
\* theme is being loaded
C6_Witness ==
    /\ projectRead = SavedDocument
    /\ Len(elements) = 2
    /\ elements[1].type # elements[2].type
    /\ canvasTheme = "paper"

ResizeMoveStep(p) ==
    /\ drag # NoDrag
    /\ drag.mode = "resize"
    /\ Present(elements, drag.id)
    /\ handleMouseMove(p[1], p[2])

\* C7: the width and height a resize pointer-move writes are both >= 60, for
\* every corner, start geometry and pointer delta.
C7_ResizeKeepsMinimum ==
    [][\A p \in Pointers :
          ResizeMoveStep(p) =>
              /\ TheElement(elements', drag.id).width >= MinSize
              /\ TheElement(elements', drag.id).height >= MinSize]_vars

\* a resize shrank a 192 wide element below the minimum: the width is clamped
C7_Witness ==
    /\ drag.mode = "resize"
    /\ drag.origW = 192
    /\ Present(elements, drag.id)
    /\ TheElement(elements, drag.id).width < 192
    /\ TheElement(elements, drag.id).width >= MinSize

\* C8: a resize pointer-move leaves the corner opposite to the dragged one
\* where it was at gesture start, for every corner and delta.
C8_OppositeCornerAnchored ==
    [][\A p \in Pointers :
          ResizeMoveStep(p) =>
              LET e == TheElement(elements', drag.id)
                  left == drag.corner \in {"nw", "sw"}
                  top == drag.corner \in {"nw", "ne"}
              IN  /\ IF left THEN e.x + e.width = drag.origX + drag.origW
                             ELSE e.x = drag.origX
                  /\ IF top THEN e.y + e.height = drag.origY + drag.origH
                            ELSE e.y = drag.origY]_vars

\* C9: a resize pointer-move from se leaves x and y at their gesture-start
\* values, from ne leaves x, from sw leaves y.
C9_RightBottomKeepPosition ==
    [][\A p \in Pointers :
          ResizeMoveStep(p) =>
              LET e == TheElement(elements', drag.id)
              IN  /\ drag.corner \in {"se", "ne"} => e.x = drag.origX
                  /\ drag.corner \in {"se", "sw"} => e.y = drag.origY]_vars

\* C10: Snap maps every integer to a multiple of 24 and is idempotent: the
\* coordinates a move pointer-move writes are Snap(v) of the dragged origin
\* plus the delta, are multiples of 24, and snapping them again changes nothing.
C10_SnapIdempotent ==
    [][\A p \in Pointers :
          ( /\ drag # NoDrag
            /\ drag.mode = "move"
            /\ Present(elements, drag.id)
            /\ handleMouseMove(p[1], p[2]) )
          => LET e == TheElement(elements', drag.id)
                 vx == drag.origX + (p[1] - drag.startX)
                 vy == drag.origY + (p[2] - drag.startY)
             IN  /\ e.x = snap(vx) /\ e.y = snap(vy)
                 /\ snap(vx) % GRID_SIZE = 0 /\ snap(vy) % GRID_SIZE = 0
                 /\ snap(snap(vx)) = snap(vx) /\ snap(snap(vy)) = snap(vy)]_vars

\* a move snapped an off-grid negative origin to a negative multiple of 24
C10_Witness ==
    /\ drag.mode = "move"
    /\ drag.origX % GRID_SIZE # 0
    /\ Present(elements, drag.id)
    /\ TheElement(elements, drag.id).x < 0
    /\ TheElement(elements, drag.id).x % GRID_SIZE = 0
    /\ TheElement(elements, drag.id).x # snap(drag.origX)

MoveStep(p) ==
    /\ drag # NoDrag
    /\ drag.mode = "move"
    /\ Present(elements, drag.id)
    /\ handleMouseMove(p[1], p[2])

\* C11 as claimed: a move that brings a coordinate to 13 writes Snap(13) = 0,
\* one that brings it to 12 writes Snap(12) = 24.
C11_Snap13Is0 ==
    [][\A p \in Pointers :
          MoveStep(p) =>
              LET e == TheElement(elements', drag.id)
                  vx == drag.origX + (p[1] - drag.startX)
              IN  /\ vx = 13 => e.x = 0
                  /\ vx = 12 => e.x = 24]_vars

\* C11 amended: Snap rounds to the nearest multiple of 24: a move that brings
\* a coordinate to 13 writes 24, to 12 writes 24, to 11 writes 0.
C11_Snap13Is24 ==
    [][\A p \in Pointers :
          MoveStep(p) =>
              LET e == TheElement(elements', drag.id)
                  vx == drag.origX + (p[1] - drag.startX)
              IN  /\ vx = 13 => e.x = 24
                  /\ vx = 12 => e.x = 24
                  /\ vx = 11 => e.x = 0]_vars

\* an element at x = 1 was moved by 12, to 13, and stands at 24
C11_Witness ==
    /\ drag.mode = "move"
    /\ drag.origX = 1
    /\ drag.startX = 0
    /\ Present(elements, drag.id)
    /\ TheElement(elements, drag.id).x = 24

\* C12 as claimed: ties round half away from zero, so a coordinate brought to
\* 12 is written as 24 and one brought to -12 as -24, and Snap(-v) = -Snap(v)
\* for every value v a move writes.
C12_HalfAwayFromZero ==
    [][\A p \in Pointers :
          MoveStep(p) =>
              LET e == TheElement(elements', drag.id)
                  vx == drag.origX + (p[1] - drag.startX)
              IN  /\ vx = 12 => e.x = 24
                  /\ vx = -12 => e.x = -24
                  /\ snap(-vx) = -e.x]_vars

\* C12 amended: ties round half up (toward +infinity): a coordinate exactly
\* halfway between two multiples of 24 is written as the greater one, so 12
\* gives 24 and -12 gives 0; Snap(-v) = -Snap(v) for every v that is not a tie.
C12_HalfUp ==
    [][\A p \in Pointers :
          MoveStep(p) =>
              LET e == TheElement(elements', drag.id)
                  vx == drag.origX + (p[1] - drag.startX)
              IN  /\ vx % GRID_SIZE = 12 => e.x = vx + 12
                  /\ vx = 12 => e.x = 24
                  /\ vx = -12 => e.x = 0
                  /\ vx % GRID_SIZE # 12 => snap(-vx) = -e.x]_vars

\* an element at x = -12 was moved by 0 and stands at 0
C12_Witness ==
    /\ drag.mode = "move"
    /\ drag.origX = -12
    /\ drag.startX = 0
    /\ Present(elements, drag.id)
    /\ TheElement(elements, drag.id).x = 0

\* the move gesture that starts where the gesture d, moved to pointer p, left
\* the element, and brings the pointer back to where d started
InverseMove(d, fwd, p) ==
    MoveGeometry([d EXCEPT !.origX = fwd.x, !.origY = fwd.y,
                           !.startX = p[1], !.startY = p[2]],
                 d.startX, d.startY)

\* C13 as claimed: a move by d followed by a move by -d returns to the snapped
\* origin, Snap(Snap(p + d) - d) = Snap(p), on each axis, for every p and d.
C13_MoveInverse ==
    [][\A p \in Pointers :
          MoveStep(p) =>
              LET back == InverseMove(drag, TheElement(elements', drag.id), p)
              IN  /\ back.x = snap(drag.origX)
                  /\ back.y = snap(drag.origY)]_vars

\* C13 amended: on each axis, when the origin p is on the grid and the delta d
\* is not exactly halfway between two multiples of 24, a move by d followed
\* by a move by -d returns to p; for every p and d it returns to within one
\* grid unit of Snap(p).
C13_MoveInverseOnGrid ==
    [][\A p \in Pointers :
          MoveStep(p) =>
              LET fwd == TheElement(elements', drag.id)
                  back == InverseMove(drag, fwd, p)
                  dx == p[1] - drag.startX
                  dy == p[2] - drag.startY
                  Near(a, b) == a - b <= GRID_SIZE /\ b - a <= GRID_SIZE
              IN  /\ fwd.x = snap(drag.origX + dx) /\ fwd.y = snap(drag.origY + dy)
                  /\ (drag.origX % GRID_SIZE = 0 /\ dx % GRID_SIZE # 12)
                        => back.x = drag.origX
                  /\ (drag.origY % GRID_SIZE = 0 /\ dy % GRID_SIZE # 12)
                        => back.y = drag.origY
                  /\ Near(back.x, snap(drag.origX))
                  /\ Near(back.y, snap(drag.origY))]_vars

\* an element on the grid line y = 48 was moved by 40 or 28 (no tie) to
\* another grid line
C13_Witness ==
    /\ drag.mode = "move"
    /\ drag.origY = 48
    /\ Present(elements, drag.id)
    /\ TheElement(elements, drag.id).y \notin {48, 36, 60}
    /\ TheElement(elements, drag.id).y % GRID_SIZE = 0

Ids(els) == {els[i].id : i \in DOMAIN els}
PositionIn(order, i) == CHOOSE k \in DOMAIN order : order[k] = i

\* C14: the paint order is the stable sort of the scene by zIndex ascending:
\* a is painted before b iff a.zIndex < b.zIndex, or the values are equal and
\* a precedes b in the scene; zIndex 5, 1, 5, 3 paints as indices 1, 3, 0, 2
\* (positions 2, 4, 1, 3 counted from one).
C14_PaintOrderStable ==
    LET order == PaintOrder(elements)
    IN  /\ Len(order) = Len(elements)
        /\ {order[k] : k \in DOMAIN order} = DOMAIN elements
        /\ \A a, b \in DOMAIN elements :
              a # b =>
                 ( PositionIn(order, a) < PositionIn(order, b)
                   <=> \/ elements[a].zIndex < elements[b].zIndex
                       \/ elements[a].zIndex = elements[b].zIndex /\ a < b )
        /\ [i \in DOMAIN elements |-> elements[i].zIndex] = <<5, 1, 5, 3>>
              => order = <<2, 4, 1, 3>>

\* the scene with zIndex 5, 1, 5, 3 in insertion order
C14_Witness ==
    [i \in DOMAIN elements |-> elements[i].zIndex] = <<5, 1, 5, 3>>

OnlyZIndexChanged(i, z) ==
    /\ DOMAIN elements'[i] = DOMAIN elements[i]
    /\ elements'[i].zIndex = z
    /\ \A k \in DOMAIN elements[i] \ {"zIndex"} : elements'[i][k] = elements[i][k]

\* C15: reorder(front) sets the selected element's zIndex to 1 + max(0, every
\* zIndex of the scene), reorder(back) to min(0, every zIndex) - 1, the
\* selected element's own value included; every other element and every
\* other attribute stays as it was.
C15_ReorderFrontBack ==
    [][ /\ (selectedIndex # 0 /\ bringForward) =>
              LET top == CHOOSE z \in ZIndexes(elements) \cup {0} :
                             \A y \in ZIndexes(elements) \cup {0} : y <= z
              IN  /\ Len(elements') = Len(elements)
                  /\ \A i \in DOMAIN elements :
                        IF elements[i].id = selectedId
                        THEN OnlyZIndexChanged(i, 1 + top)
                        ELSE elements'[i] = elements[i]
                  /\ UNCHANGED <<selectedId, canvasTheme>>
        /\ (selectedIndex # 0 /\ sendBackward) =>
              LET bottom == CHOOSE z \in ZIndexes(elements) \cup {0} :
                                \A y \in ZIndexes(elements) \cup {0} : z <= y
              IN  /\ Len(elements') = Len(elements)
                  /\ \A i \in DOMAIN elements :
                        IF elements[i].id = selectedId
                        THEN OnlyZIndexChanged(i, bottom - 1)
                        ELSE elements'[i] = elements[i]
                  /\ UNCHANGED <<selectedId, canvasTheme>> ]_vars

\* an element of the loaded scene (zIndex 5, 1, 5, 3) was selected and sent
\* to the back, to -1
C15_Witness ==
    /\ Len(elements) = 4
    /\ selectedIndex # 0
    /\ elements[selectedIndex].zIndex = -1
    /\ inputs = MaxInputs

AddStep ==
    \/ addText("New label")
    \/ \E c \in SwatchColors : addSwatch(c)
    \/ \E src \in ImageSources : imageOnload(src)

\* C16: every add (text, swatch, image) appends one element whose identifier
\* no element of the scene has and whose zIndex is the greatest zIndex of the
\* scene at the moment of insertion plus 1, or 1 in an empty scene; an image
\* whose data arrives after the scene changed obeys the same rule.
C16_AddOnTop ==
    [][AddStep =>
          LET n == Len(elements)
              e == elements'[n + 1]
          IN  /\ Len(elements') = n + 1
              /\ \A i \in 1 .. n : elements'[i] = elements[i]
              /\ e.id \notin Ids(elements)
              /\ n = 0 => e.zIndex = 1
              /\ n > 0 => /\ \A i \in 1 .. n : elements[i].zIndex < e.zIndex
                          /\ \E i \in 1 .. n : elements[i].zIndex = e.zIndex - 1]_vars

\* an image was inserted behind an element that had been reordered since the
\* read was requested, or after a deletion: its zIndex is not its position
C16_Witness ==
    /\ Len(elements) > 0
    /\ elements[Len(elements)].type = "image"
    /\ elements[Len(elements)].zIndex # Len(elements)
    /\ \A i \in 1 .. Len(elements) - 1 :
          elements[i].zIndex < elements[Len(elements)].zIndex

DuplicateStep ==
    /\ selectedIndex # 0
    /\ \/ duplicateSelected
       \/ \E shiftKey \in BOOLEAN : keydown("d", shiftKey, TRUE, FALSE)

\* C17: duplicating the selected element (toolbar or Cmd/Ctrl+D) appends
\* exactly one element: its identifier differs from every identifier of the
\* scene, its x and y are the source's plus 24, its zIndex the source's plus 1,
\* every other attribute equals the source's; the source and the other
\* elements stay as they were.
C17_DuplicateIsOffsetCopy ==
    [][DuplicateStep =>
          LET n == Len(elements)
              src == elements[selectedIndex]
              e == elements'[n + 1]
          IN  /\ Len(elements') = n + 1
              /\ \A i \in 1 .. n : elements'[i] = elements[i]
              /\ e.id \notin Ids(elements)
              /\ e.x = src.x + 24 /\ e.y = src.y + 24
              /\ e.zIndex = src.zIndex + 1
              /\ DOMAIN e = DOMAIN src
              /\ \A k \in DOMAIN src \ {"id", "x", "y", "zIndex"} : e[k] = src[k]]_vars

\* the scene holds a text label sent to the back and its copy, 24 further on
\* both axes and one layer up
C17_Witness ==
    /\ Len(elements) = 2
    /\ elements[1].type = "text"
    /\ elements[2].type = "text"
    /\ elements[1].zIndex = -1
    /\ elements[2].x = 124 /\ elements[2].y = 124
    /\ elements[2].zIndex = elements[1].zIndex + 1
    /\ elements[2].id # elements[1].id

DeleteStep ==
    /\ selectedIndex # 0
    /\ \/ deleteSelected
       \/ \E key \in {"Delete", "Backspace"}, shiftKey \in BOOLEAN, metaOrCtrl \in BOOLEAN :
             keydown(key, shiftKey, metaOrCtrl, FALSE)

AbsentIds == ((-14 .. MaxIds + 1) \ Ids(elements)) \ {NoId}

\* C18: deleting the selected element removes the element that carries the
\* selected identifier, leaves every element that carries another identifier
\* in place and in order, and clears the selection; a later patch addressed to the deleted identifier (a
\* panel patch, an edit commit, a pointer-move of the gesture that was
\* dragging it) leaves the scene as it is and does not bring the element back.
C18_DeleteThenPatchIsNoOp ==
    [][ /\ DeleteStep =>
              /\ selectedId' = NoId
              /\ selectedId \notin Ids(elements')
              /\ Len(elements') < Len(elements)
              /\ elements' = SelectSeq(elements, LAMBDA el : el.id # selectedId)
        /\ \A p \in Pointers :
              (drag # NoDrag /\ ~Present(elements, drag.id) /\ handleMouseMove(p[1], p[2]))
                 => UNCHANGED <<elements, selectedId>>
        /\ (editingTextId # NoId /\ ~Present(elements, editingTextId) /\ commitEditingText)
              => UNCHANGED <<elements, selectedId>>
        /\ \A id \in AbsentIds \cap {drag.id, editingTextId} :
              /\ updateElement(elements, id, [text |-> editingValue]) = elements
              /\ updateElement(elements, id, [x |-> 0, y |-> 0]) = elements ]_vars

\* the element a gesture is dragging was deleted: the gesture is still open,
\* the selection is cleared, another element remains
C18_Witness ==
    /\ drag # NoDrag
    /\ ~Present(elements, drag.id)
    /\ selectedId = NoId
    /\ Len(elements) > 0

\* C19: no two elements of the scene share an identifier, in every reachable
\* state, and the identifier the next add or duplicate will assign is the
\* identifier of no element.
C19_IdsUnique ==
    /\ \A i, j \in DOMAIN elements : elements[i].id = elements[j].id => i = j
    /\ uuid \notin Ids(elements)

\* C20: reorder(front), reorder(back), delete and duplicate called while no
\* element is selected, and a patch addressed to an identifier no element
\* has, leave the scene, the selection, the gesture state and the edit state
\* as they were.
C20_NoSelectionNoOp ==
    [][ /\ (selectedId = NoId /\ (bringForward \/ sendBackward \/ deleteSelected
                                     \/ duplicateSelected))
              => UNCHANGED <<scene, canvasState>>
        /\ \A shiftKey \in BOOLEAN, metaOrCtrl \in BOOLEAN :
              (selectedId = NoId /\ \E key \in {"Delete", "Backspace", "d"} :
                                        keydown(key, shiftKey, metaOrCtrl, FALSE))
                 => UNCHANGED <<scene, canvasState>>
        /\ \A p \in Pointers :
              (drag # NoDrag /\ ~Present(elements, drag.id) /\ handleMouseMove(p[1], p[2]))
                 => UNCHANGED <<scene, canvasState>>
        /\ \A id \in AbsentIds, r \in PanelRotations :
              updateElement(elements, id, [rotation |-> r]) = elements ]_vars

\* nothing is selected in a scene of several elements while a gesture still
\* names an element that is gone: the calls and the patch find no target
C20_Witness ==
    /\ selectedId = NoId
    /\ Len(elements) > 1
    /\ drag # NoDrag
    /\ drag.id \notin Ids(elements)
    /\ inputs = MaxInputs

\* C21: a patch whose width or height is below 60, applied to an element of
\* the scene, leaves that element with width (height) 60.
C21_PatchClampsSize ==
    [][\A w \in PatchedSizes, h \in PatchedSizes :
          (selectedIndex # 0 /\ onUpdateSelected([width |-> w, height |-> h]))
             => /\ w < MinSize => elements'[selectedIndex].width = MinSize
                /\ h < MinSize => elements'[selectedIndex].height = MinSize]_vars

LoadNoFontStep == projectRead = NoFontTextDoc /\ importOnload

OnlyTextChanged(before, after, text) ==
    /\ DOMAIN after = DOMAIN before \cup {"text"}
    /\ after.text = text
    /\ \A k \in DOMAIN before \ {"text"} : after[k] = before[k]

\* C23: the commit of an inline edit (blur, or Enter without Shift) sets the
\* edited element's text to the buffer, changes no other attribute of it and
\* no other element, and leaves the edit sub-state.
C23_CommitWritesBuffer ==
    [][(TextareaMounted /\ commitEditingText) =>
          /\ editingTextId' = NoId
          /\ Len(elements') = Len(elements)
          /\ \A i \in DOMAIN elements :
                IF elements[i].id = editingTextId
                THEN OnlyTextChanged(elements[i], elements'[i], editingValue)
                ELSE elements'[i] = elements[i]
          /\ UNCHANGED <<selectedId, canvasTheme, drag>>]_vars

\* the typed text was committed to a label while another element stands
\* untouched beside it
C23_Witness ==
    /\ editingTextId = NoId
    /\ Len(elements) >= 2
    /\ \E i \in DOMAIN elements :
          /\ elements[i].type = "text"
          /\ elements[i].text \in TypedTexts
    /\ \E i \in DOMAIN elements :
          /\ elements[i].type = "text"
          /\ elements[i].text \notin TypedTexts

\* C24: the cancel of an inline edit (Escape) leaves the edit sub-state and
\* leaves the scene, the edited element's text included, as it was, whatever
\* the buffer holds.
C24_CancelDiscardsBuffer ==
    [][(TextareaMounted /\ cancelEditingText) =>
          /\ editingTextId' = NoId
          /\ UNCHANGED <<elements, selectedId, canvasTheme, drag>>]_vars

\* an edit whose buffer had been changed was left without a commit: the
\* buffer holds the typed text, the selected label does not
C24_Witness ==
    /\ editingTextId = NoId
    /\ editingValue \in TypedTexts
    /\ selectedIndex # 0
    /\ elements[selectedIndex].type = "text"
    /\ elements[selectedIndex].text \notin TypedTexts
    /\ \A i \in DOMAIN elements : elements[i].type = "text" => elements[i].text \notin TypedTexts

\* C27: a pointer-down on the empty canvas background while no gesture is
\* open clears the selection, opens no gesture and leaves every element of
\* the scene as it was.
C27_BackgroundClickDeselects ==
    [][(drag = NoDrag /\ handleBoardMouseDown) =>
          /\ selectedId' = NoId
          /\ drag' = NoDrag
          /\ elements' = elements]_vars

\* the background was clicked during an inline edit with a changed buffer:
\* nothing is selected, no gesture, the label keeps its text
C27_Witness ==
    /\ selectedId = NoId
    /\ drag = NoDrag
    /\ editingTextId = NoId
    /\ editingValue \in TypedTexts
    /\ Len(elements) >= 1
    /\ \A i \in DOMAIN elements : elements[i].type = "text" /\ elements[i].text = "New label"

Geometry(el) == <<el.x, el.y, el.width, el.height>>
PointerDownOn(i, corner, p) ==
    handleMouseDownElement(i, IF corner = "none" THEN "move" ELSE "resize",
                           corner, p[1], p[2])

\* C25: while a text element is in inline edit, a pointer-down on its body or
\* on one of its four corner handles opens no gesture and selects nothing
\* new, no gesture is open on it, and pointer-moves leave its geometry as it
\* was.
C25_EditSuppressesGestures ==
    /\ [](TextareaMounted => drag.id # editingTextId)
    /\ [][ /\ \A i \in DOMAIN elements, corner \in ResizeCorners \cup {"none"},
                p \in Pointers :
                 (TextareaMounted /\ elements[i].id = editingTextId
                     /\ PointerDownOn(i, corner, p))
                    => UNCHANGED <<drag, elements, selectedId, editingTextId>>
           /\ \A p \in Pointers :
                 (TextareaMounted /\ handleMouseMove(p[1], p[2]))
                    => Geometry(TheElement(elements', editingTextId))
                          = Geometry(TheElement(elements, editingTextId)) ]_vars

\* the label is in inline edit, at its place, while a gesture has moved or
\* resized the swatch
C25_Witness ==
    /\ TextareaMounted
    /\ editingTextId = 1
    /\ drag.id = 2
    /\ Geometry(TheElement(elements, 2)) # <<120, 120, 80, 80>>
    /\ Geometry(TheElement(elements, 1)) = <<100, 100, 180, 60>>

\* C26: a gesture exists only between a pointer-down on an element and the
\* next pointer-up or pointer-leave.  A pointer-down on an element's body or
\* handle (the element not being the one in inline edit, C25) selects it and
\* opens the gesture with that element, mode, corner and start geometry;
\* pointer-up or pointer-leave closes it; nothing else opens, changes or
\* closes a gesture; a pointer-move with no gesture open changes nothing.
C26_GestureLifecycle ==
    [][ /\ \A i \in DOMAIN elements, corner \in ResizeCorners \cup {"none"},
             p \in Pointers :
              (elements[i].id # editingTextId /\ PointerDownOn(i, corner, p))
                 => /\ selectedId' = elements[i].id
                    /\ drag'.id = elements[i].id
                    /\ drag'.mode = (IF corner = "none" THEN "move" ELSE "resize")
                    /\ drag'.corner = corner
                    /\ <<drag'.startX, drag'.startY>> = p
                    /\ <<drag'.origX, drag'.origY, drag'.origW, drag'.origH>>
                          = Geometry(elements[i])
                    /\ elements' = elements
        /\ handleMouseUp => (drag' = NoDrag /\ UNCHANGED scene)
        /\ drag' # drag =>
              \/ handleMouseUp
              \/ \E i \in DOMAIN elements, corner \in ResizeCorners \cup {"none"},
                    p \in Pointers : PointerDownOn(i, corner, p)
        /\ \A p \in Pointers :
              (drag = NoDrag /\ handleMouseMove(p[1], p[2])) => UNCHANGED vars ]_vars

\* a gesture on the label, which the pointer-down selected, has resized it
\* and was closed by the pointer-up
C26_Witness ==
    /\ drag = NoDrag
    /\ selectedId = 1
    /\ editingTextId = NoId
    /\ TheElement(elements, 1).width # 180
    /\ inputs >= 1

\* C28: the PNG export captures no interaction chrome: whenever the export
\* button can be clicked, the captured board shows no selection ring and no
\* floating toolbar, also while an element is selected.
C28_ExportHasNoChrome ==
    FocusOutsideEditor =>
        /\ ~ExportedSurface.toolbar
        /\ ExportedSurface.rings = {}

ArrowStep(key, shiftKey) ==
    LET n == IF shiftKey THEN 24 ELSE 4
    IN  CASE key = "ArrowLeft" -> <<-n, 0>>
          [] key = "ArrowRight" -> <<n, 0>>
          [] key = "ArrowUp" -> <<0, -n>>
          [] key = "ArrowDown" -> <<0, n>>
          [] OTHER -> <<0, 0>>

\* C29: for a key pressed outside a text field: with an element selected, an
\* arrow key adds 4 (24 with Shift) in the arrow's direction to the x or y the
\* element has, unsnapped, and changes nothing else; Delete and Backspace
\* remove the selected element; with no element selected these keys change
\* nothing.
C29_KeyboardShortcuts ==
    [][\A key \in Keys \ {"d", "x"}, shiftKey \in BOOLEAN, metaOrCtrl \in BOOLEAN :
          keydown(key, shiftKey, metaOrCtrl, FALSE) =>
             IF selectedIndex = 0
             THEN UNCHANGED <<scene, canvasState>>
             ELSE IF key \in {"Delete", "Backspace"}
             THEN /\ selectedId \notin Ids(elements')
                  /\ Len(elements') = Len(elements) - 1
                  /\ \A i \in DOMAIN elements' :
                        elements'[i] = elements[IF i < selectedIndex THEN i ELSE i + 1]
                  /\ selectedId' = NoId
             ELSE /\ Len(elements') = Len(elements)
                  /\ \A i \in DOMAIN elements :
                        IF i = selectedIndex
                        THEN /\ DOMAIN elements'[i] = DOMAIN elements[i]
                             /\ elements'[i].x = elements[i].x + ArrowStep(key, shiftKey)[1]
                             /\ elements'[i].y = elements[i].y + ArrowStep(key, shiftKey)[2]
                             /\ \A k \in DOMAIN elements[i] \ {"x", "y"} :
                                   elements'[i][k] = elements[i][k]
                        ELSE elements'[i] = elements[i]
                  /\ UNCHANGED <<selectedId, canvasTheme, canvasState>>]_vars

\* the selected label was nudged right with Shift and then right without: it
\* stands at 128, off the grid, beside an element that did not move
C29_Witness ==
    /\ selectedIndex # 0
    /\ elements[selectedIndex].x = 128
    /\ elements[selectedIndex].y = 100
    /\ Len(elements) >= 2
    /\ inputs = MaxInputs

GesturePatch(d, p) ==
    IF d.mode = "move" THEN MoveGeometry(d, p[1], p[2]) ELSE ResizeGeometry(d, p[1], p[2])

\* C30: right after every pointer-move of a gesture the dragged element's
\* geometry depends only on the geometry and pointer stored at gesture start
\* and on the current pointer (for a move x = Snap(origX + dx) and
\* y = Snap(origY + dy), the size staying the stored one): reaching the
\* pointer through any intermediate pointer-move gives the same scene.
C30_PathIndependent ==
    [][\A p \in Pointers :
          (drag # NoDrag /\ Present(elements, drag.id) /\ handleMouseMove(p[1], p[2])) =>
             LET e == TheElement(elements', drag.id)
             IN  /\ drag.mode = "move" =>
                       Geometry(e) = <<snap(drag.origX + (p[1] - drag.startX)),
                                       snap(drag.origY + (p[2] - drag.startY)),
                                       drag.origW, drag.origH>>
                 /\ \A q \in Pointers :
                       updateElement(updateElement(elements, drag.id, GesturePatch(drag, q)),
                                     drag.id, GesturePatch(drag, p)) = elements']_vars

\* a resize gesture has already changed the element's place and size: the
\* next pointer-move starts from a geometry that is not the stored one
C30_Witness ==
    /\ drag.mode = "resize"
    /\ Present(elements, drag.id)
    /\ TheElement(elements, drag.id).width # drag.origW
    /\ TheElement(elements, drag.id).x # drag.origX
    /\ TheElement(elements, drag.id).y # drag.origY

\* C31: a pointer-move of a move gesture changes only x and y of the dragged
\* element, one of a resize gesture only x, y, width and height; the other
\* attributes of that element (rotation, zIndex, id, type, the fields of its
\* type), every other element, the number and order of the elements and the
\* selection stay as they were.
C31_GestureFrame ==
    [][\A p \in Pointers :
          (drag # NoDrag /\ handleMouseMove(p[1], p[2])) =>
             LET written == IF drag.mode = "move"
                            THEN {"x", "y"}
                            ELSE {"x", "y", "width", "height"}
             IN  /\ Len(elements') = Len(elements)
                 /\ \A i \in DOMAIN elements :
                       IF elements[i].id = drag.id
                       THEN /\ DOMAIN elements'[i] = DOMAIN elements[i]
                            /\ \A k \in DOMAIN elements[i] \ written :
                                  elements'[i][k] = elements[i][k]
                       ELSE elements'[i] = elements[i]
                 /\ UNCHANGED <<selectedId, canvasTheme>>]_vars

\* the label is being resized, 12 further than at gesture start, next to the
\* swatch, which stands as it was added
C31_Witness ==
    /\ drag # NoDrag
    /\ drag.mode = "resize"
    /\ Present(elements, drag.id)
    /\ TheElement(elements, drag.id).type = "text"
    /\ TheElement(elements, drag.id).width = 192
    /\ TheElement(elements, drag.id).fontFamily = "Inter"
    /\ elements[2] = NewSwatchElement(2, "#f97316", 2)

IssuedPatches ==
    {[text |-> t] : t \in PanelTexts}
        \cup {[fontFamily |-> f] : f \in PanelFonts}
        \cup {[fontSize |-> n] : n \in PanelFontSizes}
        \cup {[color |-> c] : c \in PanelColors}
        \cup {[rotation |-> r] : r \in PanelRotations}
        \cup {[width |-> w, height |-> h] : w \in PatchedSizes, h \in PatchedSizes}

\* C32: a patch of a present element (the panel's patch of the selected
\* element) overwrites exactly the attributes the partial names and retains
\* the others; no other element changes, the number and order of elements
\* stay, and no element's id or type changes.
C32_PatchFrame ==
    [][\A patch \in IssuedPatches :
          (selectedIndex # 0 /\ onUpdateSelected(patch)) =>
             /\ Len(elements') = Len(elements)
             /\ \A i \in DOMAIN elements :
                   /\ elements'[i].id = elements[i].id
                   /\ elements'[i].type = elements[i].type
                   /\ IF elements[i].id = selectedId
                      THEN /\ DOMAIN elements'[i] = DOMAIN elements[i] \cup DOMAIN patch
                           /\ \A k \in DOMAIN patch : elements'[i][k] = patch[k]
                           /\ \A k \in DOMAIN elements[i] \ DOMAIN patch :
                                 elements'[i][k] = elements[i][k]
                      ELSE elements'[i] = elements[i]]_vars

\* the selected label was given another font and a rotation; the element
\* added before it is as it was added
C32_Witness ==
    /\ Len(elements) >= 2
    /\ selectedIndex = 2
    /\ elements[2].type = "text"
    /\ elements[2].fontFamily = "Poppins"
    /\ elements[2].rotation = 15
    /\ elements[2].text = "New label"
    /\ elements[1].rotation = 0

GestureInterleavings ==
    \/ \E src \in ImageSources : imageOnload(src)
    \/ importOnload
    \/ \E shiftKey \in BOOLEAN : keydown("d", shiftKey, TRUE, FALSE)

\* C33: while a gesture drags element e the selection is e: an add (an image
\* whose read completes), a duplicate by Cmd/Ctrl+D or a project load that
\* happens between pointer-down and pointer-up leaves the dragged element
\* selected.
C33_DraggedIsSelected ==
    [][(drag # NoDrag /\ selectedId = drag.id /\ GestureInterleavings) =>
          (drag' # NoDrag => selectedId' = drag'.id)]_vars

\* C34: a project load that completes during a gesture ends the gesture's
\* effect: right after the load no pointer-move of the gesture still open
\* modifies an element of the loaded scene, also when the loaded scene holds
\* an element with the dragged element's id.
C34_LoadEndsGestureEffect ==
    [][(drag # NoDrag /\ importOnload /\ ~ImportThrows(projectRead)) =>
          \A p \in Pointers :
             updateElement(elements', drag'.id, GesturePatch(drag', p)) = elements']_vars

\* C35: right after an add the new element, and right after reorder(front)
\* the selected element, has a zIndex strictly greater than every other
\* element's and is painted last; right after reorder(back) the selected
\* element has a zIndex strictly smaller than every other element's and is
\* painted first; right after a duplicate the copy is painted after its
\* source.
C35_LayeringResult ==
    [][ /\ AddStep =>
              LET n == Len(elements)
                  order == PaintOrder(elements')
              IN  /\ \A i \in 1 .. n : elements'[i].zIndex < elements'[n + 1].zIndex
                  /\ order[n + 1] = n + 1
        /\ (selectedIndex # 0 /\ bringForward) =>
              LET order == PaintOrder(elements')
              IN  \A i, j \in DOMAIN elements' :
                     (elements'[i].id = selectedId /\ elements'[j].id # selectedId) =>
                        /\ elements'[j].zIndex < elements'[i].zIndex
                        /\ PositionIn(order, j) < PositionIn(order, i)
        /\ (selectedIndex # 0 /\ sendBackward) =>
              LET order == PaintOrder(elements')
              IN  \A i, j \in DOMAIN elements' :
                     (elements'[i].id = selectedId /\ elements'[j].id # selectedId) =>
                        /\ elements'[i].zIndex < elements'[j].zIndex
                        /\ PositionIn(order, i) < PositionIn(order, j)
        /\ DuplicateStep =>
              LET order == PaintOrder(elements')
              IN  PositionIn(order, selectedIndex) < PositionIn(order, Len(elements) + 1)
      ]_vars

\* an element of the loaded scene (zIndex 5, 1, 5, 3) that is not the last of
\* the scene was brought to the front: it has zIndex 6 and is painted last
C35_Witness ==
    /\ Len(elements) = 4
    /\ selectedIndex # 0
    /\ selectedIndex # 4
    /\ elements[selectedIndex].zIndex = 6
    /\ PaintOrder(elements)[4] = selectedIndex

\* C36: a key event whose target is an input or a textarea is ignored by the
\* shortcut handler: while the inline textarea is mounted (it has the focus)
\* Delete, Backspace, Cmd/Ctrl+D and the arrow keys, with or without Shift,
\* delete, duplicate and move nothing and leave the scene, the selection and
\* the edit as they are.
C36_KeysIgnoredWhileEditing ==
    [][ /\ (TextareaMounted /\ KeyboardEvents(Keys)) =>
              UNCHANGED <<scene, canvasState, uuidCount>>
        /\ \A key \in Keys, shiftKey \in BOOLEAN, metaOrCtrl \in BOOLEAN :
              keydown(key, shiftKey, metaOrCtrl, TRUE) =>
                 UNCHANGED <<scene, canvasState, uuidCount>> ]_vars

\* the label, nudged to 104 before the edit began, is selected and edited
\* inline with a typed buffer: the state in which the keys are ignored
C36_Witness ==
    /\ TextareaMounted
    /\ selectedId = editingTextId
    /\ TheElement(elements, editingTextId).x = 104
    /\ editingValue \in TypedTexts
    /\ editingValue # TheElement(elements, editingTextId).text
    /\ drag = NoDrag

====
